---- MODULE Spec2Model ----
(***************************************************************************)
(* A model of the Befunge interpreter of src/src/state.rs.                 *)
(*                                                                         *)
(* A character is modelled by its code point (a natural number), so that   *)
(* util::char_to_i64 and util::i64_to_char are the truncations to a byte   *)
(* that the code performs.  An Option<char> is the empty sequence (None)   *)
(* or a one-element sequence (Some).  A call that panics or that exhausts  *)
(* the call stack ends the process: status leaves "Ok" and no further      *)
(* action is enabled.                                                      *)
(***************************************************************************)
EXTENDS Integers, Sequences, FiniteSets, TLC

VARIABLES
    initial_grid,    \* State.initial_grid : Vec<Vec<char>>
    grid_updates,    \* State.grid_updates : HashMap<Location, char>
    stack,           \* State.stack        : Vec<i64>, top at the end
    cursor,          \* State.cursor       : Location
    direction,       \* State.direction    : Direction
    execution_mode,  \* State.execution_mode : Mode
    output,          \* what print! has written to stdout, in order
    status,          \* "Ok", "Panicked" or "StackOverflow" (process aborted)
    pc,              \* "api": the owner calls methods; "run": inside run();
                     \* "halted": run() has returned
    halt,            \* why run() returned
    call,            \* the last method call made by the owner, with its result
    ncalls,          \* number of method calls made by the owner so far
    dispatched       \* the characters dispatched so far, in order

vars == <<initial_grid, grid_updates, stack, cursor, direction, execution_mode,
          output, status, pc, halt, call, ncalls, dispatched>>

----------------------------------------------------------------------------
(* Bounds of the model *)

\* usize is modelled as the integers modulo UsizeMod (2^64 in the build)
UsizeMod == 8
\* number of nested step_cursor / next_value activations the call stack holds
MaxFrames == 4
\* number of method calls the owner makes before (or instead of) run()
MaxCalls == 2
\* largest coordinate the owner passes to value_at / set_value
MaxCoord == 2
\* number of cycles of the run loop that are explored
MaxCycles == 8

----------------------------------------------------------------------------
(* Characters *)

ord(c) ==
    CASE c = " "  -> 32  [] c = "!"  -> 33  [] c = "quote" -> 34  [] c = "#"  -> 35
      [] c = "$"  -> 36  [] c = "%"  -> 37  [] c = "&"  -> 38  [] c = "*"  -> 42
      [] c = "+"  -> 43  [] c = ","  -> 44  [] c = "-"  -> 45  [] c = "."  -> 46
      [] c = "/"  -> 47  [] c = "0"  -> 48  [] c = "1"  -> 49  [] c = "2"  -> 50
      [] c = "5"  -> 53  [] c = "9"  -> 57  [] c = ":"  -> 58  [] c = "<"  -> 60
      [] c = ">"  -> 62  [] c = "?"  -> 63  [] c = "@"  -> 64  [] c = "A"  -> 65
      [] c = "backslash" -> 92  [] c = "^"  -> 94  [] c = "_"  -> 95  [] c = "backtick" -> 96
      [] c = "a"  -> 97  [] c = "f"  -> 102 [] c = "g"  -> 103 [] c = "p"  -> 112
      [] c = "v"  -> 118 [] c = "z"  -> 122 [] c = "|"  -> 124 [] c = "~"  -> 126
      [] c = "A-macron" -> 256

Line(s) == [i \in 1..Len(s) |-> ord(s[i])]

\* util::i64_to_char : (num as u8) as char
i64_to_char(num) == num % 256

\* char_to_i64 without the cast to u8: the whole code point
char_to_i64_wide(ch) == ch

\* util::char_to_i64 : (ch as u8) as i64
char_to_i64(ch) == ch % 256

None == <<>>
Some(c) == <<c>>

\* Option::unwrap_or
unwrap_or(opt, dflt) == IF opt = None THEN dflt ELSE opt[1]

----------------------------------------------------------------------------
(* Location and Direction *)

Directions == {"Up", "Down", "Left", "Right"}

Location(x, y) == [x |-> x, y |-> y]

wrapping_add(n) == (n + 1) % UsizeMod

wrapping_sub(n) == (n - 1) % UsizeMod

\* Location::step with the subtractions stopping at 0 instead of wrapping
step_clamped(loc, d) ==
    [x |-> CASE d = "Right" -> wrapping_add(loc.x)
             [] d = "Left"  -> IF loc.x = 0 THEN 0 ELSE loc.x - 1
             [] OTHER       -> loc.x,
     y |-> CASE d = "Up"    -> IF loc.y = 0 THEN 0 ELSE loc.y - 1
             [] d = "Down"  -> wrapping_add(loc.y)
             [] OTHER       -> loc.y]

\* Location::step
step(loc, d) ==
    [x |-> CASE d = "Right" -> wrapping_add(loc.x)
             [] d = "Left"  -> wrapping_sub(loc.x)
             [] OTHER       -> loc.x,
     y |-> CASE d = "Up"    -> wrapping_sub(loc.y)
             [] d = "Down"  -> wrapping_add(loc.y)
             [] OTHER       -> loc.y]

\* Direction::opposite
opposite(d) ==
    CASE d = "Up"    -> "Down"
      [] d = "Left"  -> "Right"
      [] d = "Right" -> "Left"
      [] d = "Down"  -> "Up"

\* Direction::up_or_down, by the outcome b of rand::random()
up_or_down(b) == IF b THEN "Up" ELSE "Down"

\* Direction::right_or_left, by the outcome b of rand::random()
right_or_left(b) == IF b THEN "Right" ELSE "Down"

\* (x as usize) for an i64 x: the identity on the non-negative values, and
\* the wrap of two-complement arithmetic on the negative ones
as_usize(v) == IF v >= 0 THEN v ELSE v % UsizeMod

----------------------------------------------------------------------------
(* Stack *)

\* pop reading the bottom of the Vec instead of its top
pop_value_front(stk) == IF Len(stk) = 0 THEN 0 ELSE stk[1]

\* Stack::pop, the value returned
pop_value(stk) == IF Len(stk) = 0 THEN 0 ELSE stk[Len(stk)]

\* Stack::pop, the stack left
pop_rest(stk) == IF Len(stk) = 0 THEN stk ELSE SubSeq(stk, 1, Len(stk) - 1)

\* Stack::push
push(stk, item) == Append(stk, item)

\* Stack::duplicate_top
duplicate_top(stk) ==
    LET value == pop_value(stk)
    IN  push(push(pop_rest(stk), value), value)

\* swap_top pushing b before a: the two values back in their old order
swap_top_same_order(stk) ==
    LET a  == pop_value(stk)
        s1 == pop_rest(stk)
        b  == pop_value(s1)
        s2 == pop_rest(s1)
    IN  push(push(s2, b), a)

\* Stack::swap_top
swap_top(stk) ==
    LET a  == pop_value(stk)
        s1 == pop_rest(stk)
        b  == pop_value(s1)
        s2 == pop_rest(s1)
    IN  push(push(s2, a), b)

----------------------------------------------------------------------------
(* State: the grid *)

\* The State as one value, for the operators below
Self ==
    [initial_grid |-> initial_grid, grid_updates |-> grid_updates,
     stack |-> stack, cursor |-> cursor, direction |-> direction,
     execution_mode |-> execution_mode, output |-> output, status |-> status]

\* State::empty_state, with the fields new_from_file fills in
empty_state(lines) ==
    [initial_grid |-> lines, grid_updates |-> [l \in {} |-> 0],
     stack |-> <<>>, cursor |-> Location(0, 0), direction |-> "Right",
     execution_mode |-> "Normal", output |-> <<>>, status |-> "Ok"]

\* the end of the process by a panic or by the exhaustion of the call stack
Abort(s, how) == [s EXCEPT !.status = how]

\* the result of a call that returns an Option<char>, or panics
Returned(opt) == [panic |-> FALSE, val |-> opt]
Panic == [panic |-> TRUE, val |-> None]

\* State::value_at.  Indexing a Vec at or beyond its length panics.
value_at(s, loc) ==
    IF loc \in DOMAIN s.grid_updates
    THEN Returned(Some(s.grid_updates[loc]))
    ELSE IF Len(s.initial_grid) >= loc.y
    THEN Returned(None)
    ELSE IF ~(loc.y < Len(s.initial_grid))
    THEN Panic
    ELSE IF Len(s.initial_grid[loc.y + 1]) >= loc.x
    THEN Returned(None)
    ELSE IF ~(loc.x < Len(s.initial_grid[loc.y + 1]))
    THEN Panic
    ELSE Returned(Some(s.initial_grid[loc.y + 1][loc.x + 1]))

\* State::current_value
current_value(s) == value_at(s, s.cursor)

\* State::set_value
set_value(s, loc, ch) ==
    [s EXCEPT !.grid_updates =
        [l \in DOMAIN s.grid_updates \cup {loc} |->
            IF l = loc THEN ch ELSE s.grid_updates[l]]]

\* Location::step_mut, as State::increment_cursor applies it to the cursor
increment_cursor(s) == [s EXCEPT !.cursor = step(s.cursor, s.direction)]

RECURSIVE step_cursor(_, _)
RECURSIVE next_value(_, _)
RECURSIVE step_cursor_while(_, _, _)

\* State::step_cursor without its test of the execution mode
step_cursor_unguarded(s, frames) ==
    IF frames = 0
    THEN [s |-> Abort(s, "StackOverflow"), ret |-> FALSE]
    ELSE step_cursor_while(s, s.cursor, frames)

\* State::step_cursor; frames is the room left on the call stack.
\* Returns the state left and the bool returned.
step_cursor(s, frames) ==
    IF s.execution_mode = "Exited"
    THEN [s |-> s, ret |-> FALSE]
    ELSE IF frames = 0
    THEN [s |-> Abort(s, "StackOverflow"), ret |-> FALSE]
    ELSE step_cursor_while(s, s.cursor, frames)

\* the while loop of State::step_cursor, start being the cursor at entry
step_cursor_while(s, start, frames) ==
    LET r == next_value(s, frames - 1)
    IN  IF r.s.status # "Ok"
        THEN [s |-> r.s, ret |-> FALSE]
        ELSE IF r.val = None
        THEN IF start = r.s.cursor
             THEN [s |-> r.s, ret |-> FALSE]
             ELSE step_cursor_while(r.s, start, frames)
        ELSE [s |-> r.s, ret |-> TRUE]

\* State::next_value: it calls step_cursor, then reads the cursor's cell
next_value(s, frames) ==
    IF frames = 0
    THEN [s |-> Abort(s, "StackOverflow"), val |-> None]
    ELSE LET r == step_cursor(s, frames - 1)
         IN  IF r.s.status # "Ok"
             THEN [s |-> r.s, val |-> None]
             ELSE LET v == current_value(r.s)
                  IN  IF v.panic
                      THEN [s |-> Abort(r.s, "Panicked"), val |-> None]
                      ELSE [s |-> r.s, val |-> v.val]

----------------------------------------------------------------------------
(* The instructions.  The i64 values of the model stay far from the ends of *)
(* the i64 range, so + - * are the integers' operations.                   *)

with_stack(s, stk) == [s EXCEPT !.stack = stk]

abs(n) == IF n < 0 THEN -n ELSE n

\* b / a on i64, a # 0: the quotient rounded towards zero
rust_div(b, a) ==
    IF (b >= 0) = (a > 0) THEN abs(b) \div abs(a) ELSE -(abs(b) \div abs(a))

\* b % a on i64, a # 0: the remainder with the sign of b
rust_rem(b, a) == b - a * rust_div(b, a)

\* the operands popped by a binary instruction: a first, then b
operands(s) ==
    [a |-> pop_value(s.stack), b |-> pop_value(pop_rest(s.stack)),
     rest |-> pop_rest(pop_rest(s.stack))]

\* read_char; chr is the first character of the line read, or None
read_char(s, chr) ==
    with_stack(s, push(s.stack, char_to_i64(unwrap_or(chr, 0))))

\* read_integer; int is the i64 the trimmed line parses to, or None
read_integer(s, int) ==
    with_stack(s, push(s.stack, unwrap_or(int, 0)))

\* put
put(s) ==
    LET y == pop_value(s.stack)
        x == pop_value(pop_rest(s.stack))
        v == pop_value(pop_rest(pop_rest(s.stack)))
        rest == pop_rest(pop_rest(pop_rest(s.stack)))
    IN  set_value(with_stack(s, rest),
                  Location(as_usize(x), as_usize(y)), i64_to_char(v))

\* get: the value read is bound to a local and dropped
get(s) ==
    LET o == operands(s)
        r == value_at(s, Location(as_usize(o.b), as_usize(o.a)))
        v == char_to_i64(unwrap_or(r.val, 0))
    IN  IF r.panic
        THEN Abort(with_stack(s, o.rest), "Panicked")
        ELSE with_stack(s, o.rest)

\* greater_than
greater_than(s) ==
    LET o == operands(s)
    IN  with_stack(s, push(o.rest, IF o.b > o.a THEN 1 ELSE 0))

\* logical_negation
logical_negation(s) ==
    with_stack(s, push(pop_rest(s.stack),
                       IF pop_value(s.stack) = 0 THEN 1 ELSE 0))

\* print_digit
print_digit(s) ==
    [s EXCEPT !.stack = pop_rest(s.stack),
              !.output = Append(s.output,
                                [kind |-> "int", val |-> pop_value(s.stack)])]

\* print_char
print_char(s) ==
    [s EXCEPT !.stack = pop_rest(s.stack),
              !.output = Append(s.output,
                  [kind |-> "char", val |-> i64_to_char(pop_value(s.stack))])]

\* char::to_digit(16) on '0'..'9' and 'a'..'f'
to_digit(ch) == IF ch \in 48..57 THEN ch - 48 ELSE ch - 97 + 10

\* push_digit
push_digit(s, ch) == with_stack(s, push(s.stack, to_digit(ch)))

\* addition
addition(s) ==
    LET o == operands(s) IN with_stack(s, push(o.rest, o.a + o.b))

\* subtraction with the operands the other way round: a - b
subtraction_reversed(s) ==
    LET o == operands(s) IN with_stack(s, push(o.rest, o.a - o.b))

\* subtraction
subtraction(s) ==
    LET o == operands(s) IN with_stack(s, push(o.rest, o.b - o.a))

\* multiply
multiply(s) ==
    LET o == operands(s) IN with_stack(s, push(o.rest, o.a * o.b))

\* divide: division by zero panics
divide(s) ==
    LET o == operands(s)
    IN  IF o.a = 0
        THEN Abort(with_stack(s, o.rest), "Panicked")
        ELSE with_stack(s, push(o.rest, rust_div(o.b, o.a)))

\* modulo: a zero divisor panics
modulo(s) ==
    LET o == operands(s)
    IN  IF o.a = 0
        THEN Abort(with_stack(s, o.rest), "Panicked")
        ELSE with_stack(s, push(o.rest, rust_rem(o.b, o.a)))

\* end_program
end_program(s) == [s EXCEPT !.execution_mode = "Exited"]

\* horizontal_if
horizontal_if(s) ==
    [s EXCEPT !.stack = pop_rest(s.stack),
              !.direction = IF pop_value(s.stack) = 0 THEN "Right" ELSE "Left"]

\* veritical_if
veritical_if(s) ==
    [s EXCEPT !.stack = pop_rest(s.stack),
              !.direction = IF pop_value(s.stack) = 0 THEN "Down" ELSE "Up"]

\* process_quoted that treats '@' as the end of the program
process_quoted_exits(s, ch) ==
    IF ch = ord("quote")
    THEN [s EXCEPT !.execution_mode = "Normal"]
    ELSE IF ch = ord("@")
    THEN end_program(s)
    ELSE with_stack(s, push(s.stack, char_to_i64(ch)))

\* State::process_quoted
process_quoted(s, ch) ==
    IF ch = ord("quote")
    THEN [s EXCEPT !.execution_mode = "Normal"]
    ELSE with_stack(s, push(s.stack, char_to_i64(ch)))

\* the digits arm of process_normal, taken for 'A'..'F' as well
digit_arm_any_case(ch) == ch \in 48..57 \/ ch \in 97..102 \/ ch \in 65..70

\* the pattern of the digits arm of process_normal: '0'...'9' | 'a'...'f'
digit_arm(ch) == ch \in 48..57 \/ ch \in 97..102

\* State::process_normal.  nd holds what the environment decides: nd.dir the
\* Direction drawn by rand::random, nd.int and nd.chr what stdin delivers.
process_normal(s, ch, nd) ==
    CASE digit_arm(ch)         -> push_digit(s, ch)
      [] ch = ord("quote")     -> [s EXCEPT !.execution_mode = "Quoted"]
      [] ch = ord("#")         -> step_cursor(s, MaxFrames).s
      [] ch = ord("+")         -> addition(s)
      [] ch = ord("-")         -> subtraction(s)
      [] ch = ord("*")         -> multiply(s)
      [] ch = ord("/")         -> divide(s)
      [] ch = ord("%")         -> modulo(s)
      [] ch = ord("!")         -> logical_negation(s)
      [] ch = ord("backtick")  -> greater_than(s)
      [] ch = ord(">")         -> [s EXCEPT !.direction = "Right"]
      [] ch = ord("<")         -> [s EXCEPT !.direction = "Left"]
      [] ch = ord("^")         -> [s EXCEPT !.direction = "Up"]
      [] ch = ord("v")         -> [s EXCEPT !.direction = "Down"]
      [] ch = ord("?")         -> [s EXCEPT !.direction = nd.dir]
      [] ch = ord("|")         -> veritical_if(s)
      [] ch = ord("_")         -> horizontal_if(s)
      [] ch = ord("$")         -> with_stack(s, pop_rest(s.stack))
      [] ch = ord(":")         -> with_stack(s, duplicate_top(s.stack))
      [] ch = ord("backslash") -> with_stack(s, swap_top(s.stack))
      [] ch = ord("&")         -> read_integer(s, nd.int)
      [] ch = ord("~")         -> read_char(s, nd.chr)
      [] ch = ord(".")         -> print_digit(s)
      [] ch = ord(",")         -> print_char(s)
      [] ch = ord("p")         -> put(s)
      [] ch = ord("g")         -> get(s)
      [] ch = ord("@")         -> end_program(s)
      [] OTHER                 -> s

----------------------------------------------------------------------------
(* The run loop.  main.rs calls State::run, which state.rs does not define: *)
(* the loop is the one the specification describes (section 4.6), over the *)
(* methods above.                                                          *)

\* step 3 of the loop: dispatch according to Mode
dispatch(s, ch, nd) ==
    CASE s.execution_mode = "Normal" -> process_normal(s, ch, nd)
      [] s.execution_mode = "Quoted" -> process_quoted(s, ch)
      [] OTHER                       -> s

\* one cycle of the loop: the state left, why the loop stops ("none" when it
\* goes on) and the character dispatched, if any
run_cycle(s, nd) ==
    IF s.execution_mode = "Exited"
    THEN [s |-> s, halt |-> "exited", ch |-> None]
    ELSE LET c == current_value(s)
         IN  IF c.panic
             THEN [s |-> Abort(s, "Panicked"), halt |-> "none", ch |-> None]
             ELSE IF c.val = None
             THEN [s |-> s, halt |-> "no_char", ch |-> None]
             ELSE LET s1 == dispatch(s, c.val[1], nd)
                      r  == step_cursor(s1, MaxFrames)
                  IN  IF s1.status # "Ok"
                      THEN [s |-> s1, halt |-> "none", ch |-> c.val]
                      ELSE IF s1.execution_mode = "Exited"
                      THEN [s |-> s1, halt |-> "exited", ch |-> c.val]
                      ELSE IF r.s.status # "Ok"
                      THEN [s |-> r.s, halt |-> "none", ch |-> c.val]
                      ELSE IF ~r.ret
                      THEN [s |-> r.s, halt |-> "step_failed", ch |-> c.val]
                      ELSE [s |-> r.s, halt |-> "none", ch |-> c.val]

----------------------------------------------------------------------------
(* Inputs *)

\* the source files loaded: the line 1 2+.@, the line @, a ragged two-line
\* file and the empty file
ProgAdd == <<Line(<<"1", " ", "2", "+", ".", "@">>)>>

ProgEnd == <<Line(<<"@">>)>>

ProgRagged == <<Line(<<"1", "2">>), Line(<<"@">>)>>

ProgEmpty == <<>>

Programs == {ProgAdd, ProgEnd, ProgRagged, ProgEmpty}

\* the characters dispatched by the owner
Alphabet ==
    {ord(c) : c \in {"1", "2", " ", "+", ".", "@", "quote", "#", "p", "g", "&",
                     "v", "A", "z", "A-macron"}}

\* the characters the owner writes with set_value
PokeChars == {ord("@"), ord("#")}

\* the locations the owner asks about
ApiLocs == {Location(x, y) : x \in 0..MaxCoord, y \in 0..MaxCoord}

\* every Location of the (scaled) usize range
AllLocs == {Location(x, y) : x \in 0..(UsizeMod - 1), y \in 0..(UsizeMod - 1)}

NoInput == [dir |-> "Right", int |-> None, chr |-> None]

\* what the environment can decide while ch is dispatched
Env(ch) ==
    IF ch = ord("?")
    THEN {[NoInput EXCEPT !.dir = d] : d \in Directions}
    ELSE IF ch = ord("&")
    THEN {[NoInput EXCEPT !.int = i] : i \in {None, Some(-1), Some(2), Some(320)}}
    ELSE IF ch = ord("~")
    THEN {[NoInput EXCEPT !.chr = c] : c \in {None, Some(ord("A")), Some(ord("A-macron"))}}
    ELSE {NoInput}

----------------------------------------------------------------------------
(* Actions *)

NoCall ==
    [op |-> "none", loc |-> Location(0, 0), ch |-> 0, from |-> Location(0, 0),
     ret |-> FALSE, val |-> None, before |-> <<>>, live |-> <<>>]

Commit(s) ==
    /\ initial_grid' = s.initial_grid
    /\ grid_updates' = s.grid_updates
    /\ stack' = s.stack
    /\ cursor' = s.cursor
    /\ direction' = s.direction
    /\ execution_mode' = s.execution_mode
    /\ output' = s.output
    /\ status' = s.status

\* State::new_from_file on a readable file, then the owner's bookkeeping
Init ==
    \E lines \in Programs :
        LET s == empty_state(lines)
        IN  /\ initial_grid = s.initial_grid
            /\ grid_updates = s.grid_updates
            /\ stack = s.stack
            /\ cursor = s.cursor
            /\ direction = s.direction
            /\ execution_mode = s.execution_mode
            /\ output = s.output
            /\ status = s.status
            /\ pc = "api"
            /\ halt = "none"
            /\ call = NoCall
            /\ ncalls = 0
            /\ dispatched = <<>>

OwnerCalls == pc = "api" /\ status = "Ok" /\ ncalls < MaxCalls

\* the owner calls value_at(loc)
ValueAt ==
    \E loc \in ApiLocs :
        LET r == value_at(Self, loc)
        IN  /\ OwnerCalls
            /\ Commit(IF r.panic THEN Abort(Self, "Panicked") ELSE Self)
            /\ call' = [NoCall EXCEPT !.op = "value_at", !.loc = loc,
                                      !.from = cursor, !.val = r.val]
            /\ ncalls' = ncalls + 1
            /\ UNCHANGED <<pc, halt, dispatched>>

\* the owner calls set_value(loc, ch)
SetValue ==
    \E loc \in ApiLocs, ch \in PokeChars :
        /\ OwnerCalls
        /\ Commit(set_value(Self, loc, ch))
        /\ call' = [NoCall EXCEPT !.op = "set_value", !.loc = loc, !.ch = ch,
                                  !.from = cursor]
        /\ ncalls' = ncalls + 1
        /\ UNCHANGED <<pc, halt, dispatched>>

\* the owner calls step_cursor()
StepCursor ==
    LET r == step_cursor(Self, MaxFrames)
    IN  /\ OwnerCalls
        /\ Commit(r.s)
        /\ call' = [NoCall EXCEPT !.op = "step_cursor", !.from = cursor,
                                  !.ret = r.ret]
        /\ ncalls' = ncalls + 1
        /\ UNCHANGED <<pc, halt, dispatched>>

\* the owner dispatches ch as the loop does: by the current Mode
Dispatch ==
    \E ch \in Alphabet :
        \E nd \in Env(ch) :
            /\ OwnerCalls
            /\ execution_mode # "Exited"
            /\ Commit(dispatch(Self, ch, nd))
            /\ call' = [NoCall EXCEPT !.op = "dispatch", !.ch = ch,
                                      !.from = cursor]
            /\ ncalls' = ncalls + 1
            /\ dispatched' = Append(dispatched, ch)
            /\ UNCHANGED <<pc, halt>>

\* the owner calls run()
Run ==
    /\ pc = "api"
    /\ status = "Ok"
    /\ pc' = "run"
    /\ UNCHANGED <<initial_grid, grid_updates, stack, cursor, direction,
                   execution_mode, output, status, halt, call, ncalls,
                   dispatched>>

\* one cycle of the run loop
RunCycle ==
    \E nd \in UNION {Env(ch) : ch \in Alphabet} :
        LET r == run_cycle(Self, nd)
        IN  /\ pc = "run"
            /\ status = "Ok"
            /\ Len(dispatched) < MaxCalls + MaxCycles
            /\ r.ch # None => nd \in Env(r.ch[1])
            /\ Commit(r.s)
            /\ halt' = r.halt
            /\ pc' = IF r.halt = "none" THEN "run" ELSE "halted"
            /\ dispatched' =
                   IF r.ch = None THEN dispatched ELSE Append(dispatched, r.ch[1])
            /\ UNCHANGED <<call, ncalls>>

Next ==
    \/ ValueAt
    \/ SetValue
    \/ StepCursor
    \/ Dispatch
    \/ Run
    \/ RunCycle

Spec == Init /\ [][Next]_vars

----------------------------------------------------------------------------
(* Location::step and Direction::opposite on their own: the cursor starts  *)
(* at any Location, heading in any Direction, and is stepped.              *)

InitStep ==
    \E lines \in Programs, loc \in AllLocs, d \in Directions :
        LET s == empty_state(lines)
        IN  /\ initial_grid = s.initial_grid
            /\ grid_updates = s.grid_updates
            /\ stack = s.stack
            /\ cursor = loc
            /\ direction = d
            /\ execution_mode = s.execution_mode
            /\ output = s.output
            /\ status = s.status
            /\ pc = "api"
            /\ halt = "none"
            /\ call = NoCall
            /\ ncalls = 0
            /\ dispatched = <<>>

\* increment_cursor: cursor.step_mut(direction)
IncrementCursor ==
    /\ Commit(increment_cursor(Self))
    /\ call' = [NoCall EXCEPT !.op = "step", !.from = cursor,
                              !.loc = step(cursor, direction)]
    /\ UNCHANGED <<pc, halt, ncalls, dispatched>>

\* after a step, the cursor steps in the opposite Direction
StepBack ==
    /\ call.op = "step"
    /\ Commit([Self EXCEPT !.cursor = step(cursor, opposite(direction))])
    /\ call' = [NoCall EXCEPT !.op = "step_back", !.from = call.from,
                              !.loc = step(cursor, opposite(direction))]
    /\ UNCHANGED <<pc, halt, ncalls, dispatched>>

\* the Direction changes, as the directional instructions make it
Turn ==
    \E d \in Directions :
        /\ d # direction
        /\ Commit([Self EXCEPT !.direction = d])
        /\ call' = NoCall
        /\ UNCHANGED <<pc, halt, ncalls, dispatched>>

NextStep ==
    \/ IncrementCursor
    \/ StepBack
    \/ Turn

SpecStep == InitStep /\ [][NextStep]_vars

----------------------------------------------------------------------------
(* The Stack on its own: push, pop, duplicate_top and swap_top are called  *)
(* in any order.  call.before is the Vec before the call; call.live lists  *)
(* the values pushed and not yet popped, newest first, as the pushes and   *)
(* pops made inside the methods leave it.                                  *)

\* number of values the Stack holds before a further push is not explored
MaxStack == 3

PushVals == {0, 5, 7}

live_push(l, v) == <<v>> \o l

live_pop(l) == IF l = <<>> THEN l ELSE Tail(l)

live_top(l) == IF l = <<>> THEN 0 ELSE Head(l)

StackPush ==
    \E v \in PushVals :
        /\ Len(stack) < MaxStack
        /\ Commit([Self EXCEPT !.stack = push(stack, v)])
        /\ call' = [NoCall EXCEPT !.op = "push", !.ch = v, !.before = stack,
                                  !.live = live_push(call.live, v)]
        /\ UNCHANGED <<pc, halt, ncalls, dispatched>>

StackPop ==
    /\ Commit([Self EXCEPT !.stack = pop_rest(stack)])
    /\ call' = [NoCall EXCEPT !.op = "pop", !.val = Some(pop_value(stack)),
                              !.before = stack, !.live = live_pop(call.live)]
    /\ UNCHANGED <<pc, halt, ncalls, dispatched>>

\* duplicate_top: one pop, then two pushes of the value popped
StackDuplicateTop ==
    /\ Len(stack) < MaxStack
    /\ Commit([Self EXCEPT !.stack = duplicate_top(stack)])
    /\ call' = [NoCall EXCEPT
                   !.op = "duplicate_top", !.before = stack,
                   !.live = live_push(live_push(live_pop(call.live),
                                                pop_value(stack)),
                                      pop_value(stack))]
    /\ UNCHANGED <<pc, halt, ncalls, dispatched>>

\* swap_top: two pops, then the push of the first value popped and the push
\* of the second
StackSwapTop ==
    /\ Len(stack) < MaxStack
    /\ Commit([Self EXCEPT !.stack = swap_top(stack)])
    /\ call' = [NoCall EXCEPT
                   !.op = "swap_top", !.before = stack,
                   !.live = live_push(live_push(live_pop(live_pop(call.live)),
                                                pop_value(stack)),
                                      pop_value(pop_rest(stack)))]
    /\ UNCHANGED <<pc, halt, ncalls, dispatched>>

NextStack ==
    \/ StackPush
    \/ StackPop
    \/ StackDuplicateTop
    \/ StackSwapTop

SpecStack == Init /\ [][NextStack]_vars

----------------------------------------------------------------------------
(* process_normal called on a loaded program: numbers are pushed (digits,   *)
(* or integers read by '&'), the binary instructions are dispatched on     *)
(* them, and characters outside the instruction table are dispatched too.  *)

\* number of characters dispatched
MaxOps == 3

NormalAlphabet ==
    {ord(c) : c \in {"1", "2", "5", "&", "+", "-", "*", "/", "%", "backtick",
                     ":", " ", "A", "z"}}

\* the owner calls process_normal(ch)
ProcessNormal ==
    \E ch \in NormalAlphabet :
        \E nd \in Env(ch) :
            /\ pc = "api"
            /\ status = "Ok"
            /\ ncalls < MaxOps
            /\ Commit(process_normal(Self, ch, nd))
            /\ call' = [NoCall EXCEPT !.op = "process_normal", !.ch = ch,
                                      !.from = cursor, !.before = stack]
            /\ ncalls' = ncalls + 1
            /\ dispatched' = Append(dispatched, ch)
            /\ UNCHANGED <<pc, halt>>

NextNormal == ProcessNormal

SpecNormal == Init /\ [][NextNormal]_vars

----------------------------------------------------------------------------
(* The random-selection helpers of Direction: each is called with either   *)
(* outcome of rand::random, and the Direction returned is taken.           *)

\* the Direction becomes what up_or_down returns
UpOrDown ==
    \E b \in BOOLEAN :
        /\ Commit([Self EXCEPT !.direction = up_or_down(b)])
        /\ call' = [NoCall EXCEPT !.op = "up_or_down", !.ret = b]
        /\ UNCHANGED <<pc, halt, ncalls, dispatched>>

\* the Direction becomes what right_or_left returns
RightOrLeft ==
    \E b \in BOOLEAN :
        /\ Commit([Self EXCEPT !.direction = right_or_left(b)])
        /\ call' = [NoCall EXCEPT !.op = "right_or_left", !.ret = b]
        /\ UNCHANGED <<pc, halt, ncalls, dispatched>>

NextRandom ==
    \/ UpOrDown
    \/ RightOrLeft

SpecRandom == InitStep /\ [][NextRandom]_vars

----------------------------------------------------------------------------
(* Vocabulary of the claims: the grid's declared rectangle, the lookup as   *)
(* the specification states it, the end of a run                           *)

RECURSIVE MaxRowLen(_)
MaxRowLen(rows) ==
    IF rows = <<>>
    THEN 0
    ELSE LET m == MaxRowLen(Tail(rows))
         IN  IF Len(Head(rows)) > m THEN Len(Head(rows)) ELSE m

Width == MaxRowLen(initial_grid)

Height == Len(initial_grid)

InGrid(loc) == loc.x < Width /\ loc.y < Height

\* overlay first, then the base layer inside its extent, else None
LookupStated(loc) ==
    IF loc \in DOMAIN grid_updates
    THEN Some(grid_updates[loc])
    ELSE IF loc.y < Len(initial_grid) /\ loc.x < Len(initial_grid[loc.y + 1])
    THEN Some(initial_grid[loc.y + 1][loc.x + 1])
    ELSE None

RunEnded == pc = "halted" \/ status # "Ok"

StateVars ==
    <<grid_updates, stack, cursor, direction, execution_mode, output>>

----------------------------------------------------------------------------
(* Claims *)

\* C1: value_at(loc) returns the overlay character when the overlay has an
\* entry for loc, otherwise the base character initial_grid[y][x] when y is a
\* row index and x a column index of that row, otherwise None.
C1_ValueAtLookup ==
    (call.op = "value_at" /\ status = "Ok") => call.val = LookupStated(call.loc)

\* C2: value_at never fails: for every Location and every overlay the call
\* returns (a character or None) and makes no out-of-range access.
C2_ValueAtNeverFails ==
    call.op = "value_at" => status = "Ok"

\* C3: step is toroidal: from a Location inside the grid's width and height
\* a step in any Direction ends inside the grid, and the steps off an edge
\* arrive at the opposite edge.
C3_StepToroidal ==
    (call.op = "step" /\ InGrid(call.from)) =>
        /\ InGrid(call.loc)
        /\ (direction = "Left" /\ call.from.x = 0) => call.loc.x = Width - 1
        /\ (direction = "Right" /\ call.from.x = Width - 1) => call.loc.x = 0
        /\ (direction = "Up" /\ call.from.y = 0) => call.loc.y = Height - 1
        /\ (direction = "Down" /\ call.from.y = Height - 1) => call.loc.y = 0

\* C4: for every Location L and Direction D, step(step(L, D), opposite(D))
\* is L, also when the first step wraps at an edge.
C4_StepRoundTrip ==
    call.op = "step_back" => (call.loc = call.from /\ cursor = call.from)

\* C4's case: a step Left from x = 0 (which wraps), then the step back
C4_Witness ==
    /\ call.op = "step_back"
    /\ direction = "Left"
    /\ call.from.x = 0
    /\ cursor = call.from

\* C5: a call of step_cursor in a non-Exited mode returns: true with the
\* cursor on a defined character, or false with the cursor back where it
\* started.
C5_StepCursorReturns ==
    (call.op = "step_cursor" /\ execution_mode # "Exited") =>
        /\ status = "Ok"
        /\ call.ret => current_value(Self).val # None
        /\ ~call.ret => cursor = call.from

\* C6: 'g' dispatched in Normal mode pops y and x and pushes exactly one
\* value: the code of the character written at (x, y) when there is one
\* (whatever the base layer holds there), and 0 when no character is defined.
C6_StoreLoadRoundTrip ==
    [][(execution_mode = "Normal" /\ dispatched' = Append(dispatched, ord("g")))
        => LET o   == operands(Self)
               loc == Location(as_usize(o.b), as_usize(o.a))
               r   == value_at(Self, loc)
           IN  /\ Len(stack') = Len(o.rest) + 1
               /\ SubSeq(stack', 1, Len(o.rest)) = o.rest
               /\ loc \in DOMAIN grid_updates =>
                      pop_value(stack') = char_to_i64(grid_updates[loc])
               /\ (~r.panic /\ r.val = None) => pop_value(stack') = 0]_vars

\* C7: the run of the one-line program 1 2+.@ from the initial state
\* dispatches 1, space, 2, +, ., @ in that order, prints the integer 3 once
\* and stops with Mode = Exited.
C7_RunAdd ==
    (initial_grid = ProgAdd /\ ncalls = 0 /\ RunEnded) =>
        /\ status = "Ok"
        /\ dispatched = ProgAdd[1]
        /\ output = <<[kind |-> "int", val |-> 3]>>
        /\ execution_mode = "Exited"
        /\ halt = "exited"

\* C8: the run of the one-line program @ dispatches '@' and nothing else,
\* changes neither stack nor overlay nor output, and stops with Mode =
\* Exited, not by finding no character at the cursor.
C8_RunEnd ==
    (initial_grid = ProgEnd /\ ncalls = 0 /\ RunEnded) =>
        /\ status = "Ok"
        /\ dispatched = <<ord("@")>>
        /\ stack = <<>>
        /\ DOMAIN grid_updates = {}
        /\ output = <<>>
        /\ execution_mode = "Exited"
        /\ halt = "exited"

\* C9: Mode becomes Exited only in a step that dispatches '@' while Mode is
\* Normal; '@' dispatched while Mode is Quoted pushes 64 and leaves Mode
\* Quoted.
C9_ExitOnlyByEnd ==
    [][/\ (execution_mode # "Exited" /\ execution_mode' = "Exited") =>
              (execution_mode = "Normal"
                   /\ dispatched' = Append(dispatched, ord("@")))
       /\ (execution_mode = "Quoted"
               /\ dispatched' = Append(dispatched, ord("@"))) =>
              (stack' = Append(stack, 64) /\ execution_mode' = "Quoted")]_vars

\* C9's case: '@' has been dispatched in Quoted mode
C9_Witness ==
    /\ execution_mode = "Quoted"
    /\ dispatched = <<ord("quote"), ord("@")>>
    /\ stack = <<64>>

\* C10: once Mode is Exited the run loop executes nothing more: Mode, stack,
\* overlay, Direction, cursor and output stay as they are; and step_cursor
\* called in Exited mode returns false and leaves the cursor where it was.
C10_ExitedAbsorbing ==
    [][/\ (execution_mode = "Exited" /\ pc # "api") =>
              (UNCHANGED StateVars /\ UNCHANGED dispatched /\ status' = "Ok")
       /\ (execution_mode = "Exited" /\ ncalls' = ncalls + 1
               /\ call'.op = "step_cursor") =>
              (status' = "Ok" /\ call'.ret = FALSE /\ UNCHANGED StateVars)]_vars

\* C10's case: step_cursor was called in Exited mode, then run() was called
\* and returned at once
C10_Witness ==
    /\ execution_mode = "Exited"
    /\ call.op = "step_cursor"
    /\ ~call.ret
    /\ pc = "halted"
    /\ halt = "exited"

\* the character dispatched by the step, when the step dispatches one
Dispatches(ch) == dispatched' = Append(dispatched, ch)

DispatchStep == Len(dispatched') = Len(dispatched) + 1

\* a step that is one dispatch and nothing else (in a cycle of the run loop
\* the cursor's advance follows the dispatch)
DispatchAlone == DispatchStep /\ ncalls' = ncalls + 1

LastDispatched == dispatched'[Len(dispatched')]

\* C11, as claimed: in Quoted mode a character other than the quote pushes
\* exactly its numeric code and changes nothing else; the quote sets Mode to
\* Normal and leaves the stack; in Normal mode the quote sets Mode to Quoted
\* and leaves the stack.
C11_QuotedPushesCode ==
    [][DispatchAlone =>
        /\ (execution_mode = "Quoted" /\ LastDispatched # ord("quote")) =>
               /\ stack' = Append(stack, LastDispatched)
               /\ status' = "Ok"
               /\ UNCHANGED <<execution_mode, direction, grid_updates, cursor,
                              output>>
        /\ (execution_mode = "Quoted" /\ LastDispatched = ord("quote")) =>
               /\ execution_mode' = "Normal"
               /\ status' = "Ok"
               /\ UNCHANGED <<stack, direction, grid_updates, cursor, output>>
        /\ (execution_mode = "Normal" /\ LastDispatched = ord("quote")) =>
               /\ execution_mode' = "Quoted"
               /\ status' = "Ok"
               /\ UNCHANGED <<stack, direction, grid_updates, cursor, output>>]_vars

\* C11, amended: the value pushed in Quoted mode is the character's code
\* reduced to its low 8 bits (the code itself up to U+00FF); the rest as
\* claimed.
C11_QuotedPushesByte ==
    [][DispatchAlone =>
        /\ (execution_mode = "Quoted" /\ LastDispatched # ord("quote")) =>
               /\ stack' = Append(stack, LastDispatched % 256)
               /\ LastDispatched < 256 => pop_value(stack') = LastDispatched
               /\ status' = "Ok"
               /\ UNCHANGED <<execution_mode, direction, grid_updates, cursor,
                              output>>
        /\ (execution_mode = "Quoted" /\ LastDispatched = ord("quote")) =>
               /\ execution_mode' = "Normal"
               /\ status' = "Ok"
               /\ UNCHANGED <<stack, direction, grid_updates, cursor, output>>
        /\ (execution_mode = "Normal" /\ LastDispatched = ord("quote")) =>
               /\ execution_mode' = "Quoted"
               /\ status' = "Ok"
               /\ UNCHANGED <<stack, direction, grid_updates, cursor, output>>]_vars

\* C11's case: a character above U+00FF has been dispatched in Quoted mode
C11_Witness ==
    /\ execution_mode = "Quoted"
    /\ dispatched = <<ord("quote"), ord("A-macron")>>
    /\ stack = <<0>>

\* C12: pop on an empty stack returns 0 and leaves the stack empty;
\* duplicate_top on an empty stack leaves exactly two zeros; and after any
\* sequence of push, pop, duplicate_top and swap_top, pop returns the most
\* recently pushed value not yet popped, or 0 when there is none.
C12_PopDefaultsToZero ==
    [][/\ call'.op = "pop" =>
              /\ call'.val = Some(live_top(call.live))
              /\ stack = <<>> => (call'.val = Some(0) /\ stack' = <<>>)
       /\ (call'.op = "duplicate_top" /\ stack = <<>>) => stack' = <<0, 0>>]_vars

\* C12's case: pop has been called on an empty stack and has returned 0
C12_Witness ==
    /\ call.op = "pop"
    /\ call.before = <<>>
    /\ call.val = Some(0)
    /\ stack = <<>>

\* C13, as claimed: swap_top on the stack [5] yields [0, 5], bottom to top:
\* 5 on top and 0 beneath it.
C13_SwapSingleClaimed ==
    [][(call'.op = "swap_top" /\ stack = <<5>>) => stack' = <<0, 5>>]_vars

\* C13, amended: swap_top on the stack [5] yields [5, 0], bottom to top:
\* 0 on top and 5 beneath it.
C13_SwapSingle ==
    [][(call'.op = "swap_top" /\ stack = <<5>>) =>
          (stack' = <<5, 0>> /\ pop_value(stack') = 0)]_vars

\* C13's case: swap_top has been called on the stack [5]
C13_Witness ==
    /\ call.op = "swap_top"
    /\ call.before = <<5>>
    /\ stack = <<5, 0>>

\* the operands [b, a] at the end of a stack (a on top), a missing one
\* counting as 0, and the stack beneath them
TopA(stk) == IF Len(stk) >= 1 THEN stk[Len(stk)] ELSE 0

SecondB(stk) == IF Len(stk) >= 2 THEN stk[Len(stk) - 1] ELSE 0

Beneath(stk) == IF Len(stk) >= 2 THEN SubSeq(stk, 1, Len(stk) - 2) ELSE <<>>

Magnitude(n) == IF n < 0 THEN -n ELSE n

\* r is the remainder of b by a (a # 0) that goes with the quotient rounded
\* towards zero: smaller than a in magnitude, of the sign of b
IsRemainder(b, a, r) ==
    /\ Magnitude(r) < Magnitude(a)
    /\ r = 0 \/ ((r > 0) = (b > 0))

\* C14: for [b, a] at the end of the stack, '+' leaves b+a, '-' b-a, '*' b*a,
\* '/' the integer quotient b/a and '%' the remainder b%a (a non-zero), and
\* the backtick 1 if b>a and 0 otherwise; the stack beneath is unchanged and
\* missing operands count as 0.
C14_OperandOrder ==
    [][(DispatchAlone /\ execution_mode = "Normal") =>
        LET a == TopA(stack)
            b == SecondB(stack)
            ch == LastDispatched
            Leaves(v) == stack' = Append(Beneath(stack), v) /\ status' = "Ok"
        IN  /\ ch = ord("+") => Leaves(b + a)
            /\ ch = ord("-") => Leaves(b - a)
            /\ ch = ord("*") => Leaves(b * a)
            /\ ch = ord("backtick") => Leaves(IF b > a THEN 1 ELSE 0)
            /\ (ch = ord("/") /\ a # 0) =>
                   /\ status' = "Ok"
                   /\ Len(stack') = Len(Beneath(stack)) + 1
                   /\ SubSeq(stack', 1, Len(stack') - 1) = Beneath(stack)
                   /\ IsRemainder(b, a, b - a * TopA(stack'))
            /\ (ch = ord("%") /\ a # 0) =>
                   /\ status' = "Ok"
                   /\ Len(stack') = Len(Beneath(stack)) + 1
                   /\ SubSeq(stack', 1, Len(stack') - 1) = Beneath(stack)
                   /\ IsRemainder(b, a, TopA(stack'))
                   /\ \E q \in (-Magnitude(b))..Magnitude(b) :
                          b = q * a + TopA(stack')]_vars

\* C14's case: '-' dispatched on [-1, 2] has left -3
C14_Witness ==
    /\ dispatched = <<ord("&"), ord("&"), ord("-")>>
    /\ call.before = <<-1, 2>>
    /\ stack = <<-3>>

\* C15: process_normal never ends in a failure of the interpreter,
\* whatever the character and the stack, '/' and '%' with 0 on top (also on
\* an empty stack) included.
C15_DispatchNeverFails ==
    call.op = "process_normal" => status = "Ok"

\* characters of the alphabet that are outside the instruction table
NoInstruction == {ord(" "), ord("A"), ord("z")}

\* C16: process_normal on a character outside the instruction table (a space,
\* an upper-case letter, a lower-case letter that is no instruction) leaves
\* stack, Direction, Mode, overlay and cursor unchanged, produces no output
\* and does not fail.
C16_UnknownIsNoOp ==
    [][(DispatchAlone /\ execution_mode = "Normal"
                      /\ LastDispatched \in NoInstruction) =>
        (UNCHANGED StateVars /\ status' = "Ok")]_vars

\* C16's case: 'A' dispatched on the stack [5] has left it as it was
C16_Witness ==
    /\ dispatched = <<ord("5"), ord("A")>>
    /\ call.op = "process_normal"
    /\ call.before = <<5>>
    /\ stack = <<5>>
    /\ status = "Ok"

\* C17: after the load every coordinate of the declared rectangle (y below
\* the number of rows, x below the length of the widest row) has a defined
\* character: value_at returns a character there, never None.
C17_RectangleDefined ==
    (call.op = "value_at" /\ InGrid(call.loc)) =>
        (status = "Ok" /\ call.val # None)

\* C18: when the cell one step from the cursor in the current Direction
\* holds a defined character, step_cursor (in a non-Exited mode) returns
\* true with the cursor on that cell, and Direction, stack, Mode and overlay
\* are as before.
C18_StepCursorAdjacent ==
    [][(call'.op = "step_cursor" /\ ncalls' = ncalls + 1
            /\ execution_mode # "Exited"
            /\ LookupStated(step(cursor, direction)) # None) =>
        /\ status' = "Ok"
        /\ call'.ret
        /\ cursor' = step(cursor, direction)
        /\ UNCHANGED <<direction, stack, execution_mode, grid_updates>>]_vars

\* C19: the cycle of the run loop that dispatches '#' in Normal mode goes on
\* and leaves the cursor beyond the cell next to '#': neither on '#' nor on
\* the cell one step from it in the current Direction.
C19_SkipPassesOver ==
    [][(pc = "run" /\ execution_mode = "Normal" /\ Dispatches(ord("#"))) =>
        /\ status' = "Ok"
        /\ cursor' # cursor
        /\ cursor' # step(cursor, direction)]_vars

\* C20: up_or_down returns only Up or Down, and right_or_left only Right or
\* Left, whatever the random choice.
C20_HelpersStayOnAxis ==
    /\ call.op = "up_or_down" => direction \in {"Up", "Down"}
    /\ call.op = "right_or_left" => direction \in {"Right", "Left"}

====
